---------------------------- MODULE Spec2Model ----------------------------
(***************************************************************************)
(* A model of the MongoDB -> NATS connector: Connector.Run (bootstrap      *)
(* loop, errgroup of Watcher tasks + Health Server task + shutdown task,   *)
(* deferred cleanup), main's exit, the Health Server's Run/Close, and the  *)
(* per-event pipeline of a Watcher (publish, then persist the resume       *)
(* token).  mongo.WatchCollection is not part of the available sources:    *)
(* its loop is modelled from the specification (sections 4.1 and 4.3).     *)
(* connector.New with its WithCollection options and the /healthz handler  *)
(* of the Health Server are modelled as well; the handler's code is not    *)
(* part of the available sources either: its response follows its test.   *)
(* main's translation of the config file's collection entries into the     *)
(* options of New is modelled under MainSpec.                              *)
(***************************************************************************)
EXTENDS Integers, Sequences, FiniteSets

\* ------------------------------------------------------------------ bounds
\* Number of change events that occur in the watched collections altogether.
MaxEvents == 2
\* Number of times the process may die and be started again.
MaxCrashes == 1
\* Number of records a capped sidecar holds before the oldest is evicted.
SidecarCap == 1
\* Number of WithCollection options passed to New.
MaxCollections == 2

\* ----------------------------------------------------------- configuration
\* Two configured collections: the first with a capped sidecar (as in the
\* tests), the second with the defaults (uncapped sidecar).
collections ==
  << [name |-> "coll1", tokensCollCapped |-> TRUE],
     [name |-> "coll2", tokensCollCapped |-> FALSE] >>

Colls == 1..Len(collections)

\* ------------------------------------------------------------------ errors
Nil == "nil"
ErrServerClosed == "http.ErrServerClosed"
ErrListen == "listen error"
ErrClose == "server close error"
ErrPublish == "publish error"
ErrPersist == "persist error"
ErrCursor == "change stream error"
ErrCreateCollection == "create collection error"
ErrAddStream == "add stream error"
ErrClientClose == "client close error"
ErrDbNameMissing == "invalid option: dbName is missing"
ErrCollNameMissing == "invalid option: collName is missing"
ErrInvalidCollSizeInBytes ==
  "invalid option: collSizeInBytes must be greater than 0"
ErrInvalidDbAndCollNames ==
  "invalid option: dbName and tokensDbName cannot be the same ..."
ErrMonitor == "not reachable"
ErrMongoClient == "mongo client error"
ErrNatsClient == "nats client error"

VARIABLES
  \* --- Connector.Run
  pc,          \* position of Run / main
  bootIdx,     \* index of the collection the bootstrap loop is at
  bootStep,    \* next statement of the loop body
  retErr,      \* the value Run returns
  calls,       \* bootstrap calls issued so far, in order
  cleanupLog,  \* what cleanup has done so far, in order
  closeLogged, \* clients whose Close error closeClient has logged
  exitCode,    \* process exit code (-1 while running)
  \* --- errgroup and contexts
  groupErr,    \* errgroup's first recorded error
  groupCancel, \* errgroup has cancelled its context
  ext,         \* external cancellation: none | parent | signal
  \* --- tasks
  wst,         \* per collection: state of its Watcher task
  cur,         \* per collection: id of the last event the cursor delivered
  srvTask,     \* Health Server task
  shTask,      \* shutdown task
  http,        \* the http.Server: new | serving | shutdown
  \* --- durable state (survives the process)
  stream,      \* per collection: number of change events that occurred
  sidecar,     \* per collection: resume-token records, in insertion order
  bus,         \* per collection: acknowledged publishes, in order
  \* --- history
  firstFail,   \* error of the first task that returned a non-nil error
  taskFailed,  \* a task returned an error other than http.ErrServerClosed
  crashes,     \* number of restarts so far
  dupOK,       \* per collection: events published but unpersisted at a crash
  wfail,       \* per collection: the failure its Watcher met, if any
  everPersisted, \* per collection: events whose token was ever inserted
  reopened,    \* how the last reopened cursor resumed: no | now | token
  \* --- Health Server handler
  health,      \* the last /healthz response and what the monitors returned
  \* --- connector.New
  newPc,       \* position of New: options | done | failed
  newColls,    \* options.collections as built so far
  newErr,      \* the error New returns
  failedOpt,   \* the arguments of the WithCollection option that failed
  built,       \* what New has constructed: the clients, the signal handler
               \* and the Health Server
  cfgs         \* the collection entries of the config file main has read

vars == << pc, bootIdx, bootStep, retErr, calls, cleanupLog, exitCode,
           groupErr, groupCancel, ext, wst, cur, srvTask, shTask, http,
           stream, sidecar, bus, firstFail, taskFailed, crashes, dupOK,
           closeLogged, wfail, everPersisted, reopened, health, newPc,
           newColls, newErr, failedOpt, built, cfgs >>

runVars == << pc, bootIdx, bootStep, retErr, calls, cleanupLog, exitCode,
             closeLogged >>
groupVars == << groupErr, groupCancel, firstFail, taskFailed >>
serverVars == << srvTask, shTask, http >>
durableVars == << stream, sidecar, bus >>
crashVars == << crashes, dupOK >>
histVars == << wfail, everPersisted, reopened >>
newVars == << newPc, newColls, newErr, failedOpt, built, cfgs >>

Range(s) == { s[i] : i \in 1..Len(s) }

\* ---------------------------------------------------------------- helpers
\* Connector.cleanup: close the MongoDB client, close the NATS client,
\* release the signal handler.
cleanupOrderSwapped == << "nats", "mongo", "stop" >>
cleanupOrder == << "mongo", "nats", "stop" >>

mongoClosed == "mongo" \in Range(cleanupLog)
natsClosed == "nats" \in Range(cleanupLog)
stopCalled == "stop" \in Range(cleanupLog)

\* groupCtx is derived from c.options.ctx (the signal context, itself derived
\* from the caller's context): it is done when the caller cancels, a signal
\* arrives, stop() is called, or the errgroup cancels it.
ctxDone == ext # "none" \/ groupCancel \/ stopCalled

\* The goroutines only run while the process lives.
Alive == pc # "exited"

\* The loop body of Run: create watched collection, create resume-token
\* collection, add stream, spawn the Watcher.
NextBootStepStreamFirst(step) ==
  CASE step = "watched" -> "stream"
    [] step = "stream" -> "sidecar"
    [] step = "sidecar" -> "spawn"
    [] OTHER -> "watched"
NextBootStep(step) ==
  CASE step = "watched" -> "sidecar"
    [] step = "sidecar" -> "stream"
    [] step = "stream" -> "spawn"
    [] OTHER -> "watched"

\* The error a failing bootstrap call returns.
BootErr(step) == IF step = "stream" THEN ErrAddStream ELSE ErrCreateCollection

\* `if err := ...; err != nil { return err }` after each bootstrap call.
\* The watched collection, the sidecar and the stream of c are known to exist
\* when the sidecar holds a record: a Watcher of c wrote it, after the three
\* bootstrap calls for c had succeeded.
KnownCreated(c) == sidecar[c] # << >>

\* CreateCollection and AddStream are idempotent: the call succeeds when the
\* collection or stream exists already, and creates it otherwise; it fails
\* only on a fault of the call (the server is unreachable, ...).
CreateStrict(existed, fault) == ~fault /\ ~existed
CreateIfAbsent(existed, fault) == ~fault

AfterBootCallIgnoreErr(ok, step) == [pc |-> "boot", step |-> NextBootStep(step)]
AfterBootCall(ok, step) ==
  IF ok THEN [pc |-> "boot", step |-> NextBootStep(step)]
        ELSE [pc |-> "cleanup", step |-> step]

\* errgroup: the first non-nil error is kept (errOnce).
GroupRecord(old, err) == IF old = Nil THEN err ELSE old

\* The ChangeEventHandler closure: returns what natsClient.Publish returned.
ChangeEventHandlerSwallow(publishErr) == Nil
ChangeEventHandler(publishErr) == publishErr

\* Server.Close: http.Shutdown puts the server in shutdown.
ServerCloseNoop(h) == h
ServerClose(h) == "shutdown"

\* Server.Run: ListenAndServe returns ErrServerClosed once Shutdown was called.
ServeResultNil == Nil
ServeResult == ErrServerClosed

\* main: log.Fatalf("exiting: %v", conn.Run()) exits with status 1.
ExitCode(err) == 1

\* A task of the group returns err.
TaskReturn(err) ==
  /\ groupErr' = GroupRecord(groupErr, err)
  /\ groupCancel' = (groupCancel \/ err # Nil)
  /\ firstFail' = IF firstFail = Nil THEN err ELSE firstFail
  /\ taskFailed' = (taskFailed \/ err \notin {Nil, ErrServerClosed})
\* ------------------------------------------------ Watcher (WatchCollection)
\* The event id (the bus deduplication id) is the string form of the event's
\* resume token; tokens are numbered 1, 2, ... in change-stream order.
EventId(token) == token

SeqMax(s) ==
  IF s = << >> THEN 0
  ELSE CHOOSE m \in Range(s) : \A x \in Range(s) : x <= m

Ids(records) == [ i \in 1..Len(records) |-> records[i]._id ]

\* The most recent token of a sidecar: the most recently inserted record of
\* a capped sidecar, the record with the greatest _id of an uncapped one.
LatestTokenOldest(c) == sidecar[c][1].token
LatestToken(c) ==
  IF collections[c].tokensCollCapped
    THEN sidecar[c][Len(sidecar[c])].token
    ELSE (CHOOSE r \in Range(sidecar[c]) : r._id = SeqMax(Ids(sidecar[c]))).token

\* Where the cursor is opened: resumeAfter the latest token, or "now".
ResumePosSkipOne(c) ==
  IF sidecar[c] = << >> THEN stream[c]
  ELSE IF LatestToken(c) < stream[c] THEN LatestToken(c) + 1 ELSE LatestToken(c)
ResumePos(c) ==
  IF sidecar[c] = << >> THEN stream[c] ELSE LatestToken(c)

\* Where the cursor is reopened after a resumable error: after the last
\* persisted token, read as at startup.
ReopenPosNow(c) == stream[c]
ReopenPos(c) == ResumePos(c)

\* Insert a resume-token record; a capped sidecar evicts its oldest record.
InsertTokenDrop(c, rec) == sidecar[c]
InsertToken(c, rec) ==
  LET s == Append(sidecar[c], rec)
  IN  IF collections[c].tokensCollCapped /\ Len(s) > SidecarCap
        THEN Tail(s) ELSE s

\* closeClient: a Close error is logged and dropped; what Run returns stays.
closeClientPropagate(ret, err) == IF err # Nil THEN err ELSE ret
closeClient(ret, err) == ret

\* The Watcher asks the cursor for the next event only when it is Idle.
NextReadyEarly(state) == state \in {"idle", "persisting"}
NextReady(state) == state = "idle"

Running(c) == wst[c] \in {"spawned", "idle", "publishing", "persisting"}
Returned(c) == wst[c] \in {"failed", "stopped"}

\* ------------------------------------------------------- /healthz handler
\* The monitors server.New registers: the MongoDB and the NATS client.
Monitors == {"mongo", "nats"}
UP == "UP"
DOWN == "DOWN"
StatusOK == 200

\* The response of healthCheck(monitors...) when the monitors return
\* `results`: the status of each component follows its monitor; the
\* top-level status is UP and the HTTP status is 200 (TestServer_Run: UP
\* with cmp_up UP and cmp_down DOWN).
healthCheckAllUp(results) ==
  [code |-> StatusOK, status |-> UP,
   components |-> [m \in Monitors |-> UP],
   monitored |-> results]
healthCheck(results) ==
  [code |-> StatusOK, status |-> UP,
   components |-> [m \in Monitors |-> IF results[m] = Nil THEN UP ELSE DOWN],
   monitored |-> results]

\* No request served yet.
NoResponse ==
  [code |-> 0, status |-> "", components |-> [m \in Monitors |-> ""],
   monitored |-> [m \in Monitors |-> Nil]]

\* ------------------------------------------------- options of connector.New
\* Names are words over a small alphabet that has letters in both cases; the
\* word r stands for "resume-tokens".
Chars == {"r", "R", "a"}
Names == {<< >>} \cup { << ch >> : ch \in Chars }
defaultTokensDbName == << "r" >>
defaultTokensCollCapped == FALSE
defaultTokensCollSizeInBytes == 0

\* strings.ToUpper and strings.EqualFold, letter by letter.
ToUpperCh(ch) == CASE ch = "r" -> "R"
                   [] ch = "a" -> "A"
                   [] OTHER -> ch
ToUpper(s) == [i \in 1..Len(s) |-> ToUpperCh(s[i])]
EqualExact(a, b) == a = b
EqualFold(a, b) ==
  /\ Len(a) = Len(b)
  /\ \A i \in 1..Len(a) : ToUpperCh(a[i]) = ToUpperCh(b[i])

\* The collection options given to one WithCollection: the argument of
\* WithTokensDbName and of WithTokensCollName (the empty name when the option
\* is not given: both options ignore an empty name) and the arguments of
\* the WithTokensCollCapped options given (none or one).
Sizes == {-1, 0, 1}
CollOpts == [tokensDbName : Names, tokensCollName : Names,
             capped : {<< >>} \cup { << n >> : n \in Sizes }]
NoOpt == [dbName |-> << >>, collName |-> << >>,
          opts |-> [tokensDbName |-> << >>, tokensCollName |-> << >>,
                    capped |-> << >>]]

WithTokensDbName(coll, tokensDbName) ==
  [err |-> Nil,
   coll |-> IF tokensDbName # << >>
              THEN [coll EXCEPT !.tokensDbName = tokensDbName] ELSE coll]

WithTokensCollName(coll, tokensCollName) ==
  [err |-> Nil,
   coll |-> IF tokensCollName # << >>
              THEN [coll EXCEPT !.tokensCollName = tokensCollName] ELSE coll]

WithTokensCollCappedAnySize(coll, collSizeInBytes) ==
  [err |-> Nil,
   coll |-> [coll EXCEPT !.tokensCollCapped = TRUE,
                         !.tokensCollSizeInBytes = collSizeInBytes]]
WithTokensCollCapped(coll, collSizeInBytes) ==
  IF collSizeInBytes <= 0
    THEN [err |-> ErrInvalidCollSizeInBytes, coll |-> coll]
    ELSE [err |-> Nil,
          coll |-> [coll EXCEPT !.tokensCollCapped = TRUE,
                                !.tokensCollSizeInBytes = collSizeInBytes]]

\* for _, opt := range opts { if err := opt(coll); err != nil { return err } }
ApplyCollOpts(coll, opts) ==
  LET a == WithTokensDbName(coll, opts.tokensDbName)
      b == WithTokensCollName(a.coll, opts.tokensCollName)
  IN  IF opts.capped = << >> THEN b
      ELSE WithTokensCollCapped(b.coll, opts.capped[1])

\* WithCollection(dbName, collName, opts...) applied to the Options: the
\* error it returns and the collection it appends when the error is nil.
WithCollection(dbName, collName, opts) ==
  LET coll == [dbName |-> dbName,
               collName |-> collName,
               tokensDbName |-> defaultTokensDbName,
               tokensCollName |-> collName,
               tokensCollCapped |-> defaultTokensCollCapped,
               tokensCollSizeInBytes |-> defaultTokensCollSizeInBytes,
               streamName |-> ToUpper(collName)]
      r == ApplyCollOpts(coll, opts)
  IN  IF dbName = << >> THEN [err |-> ErrDbNameMissing, coll |-> coll]
      ELSE IF collName = << >> THEN [err |-> ErrCollNameMissing, coll |-> coll]
      ELSE IF r.err # Nil THEN r
      ELSE IF /\ EqualFold(r.coll.dbName, r.coll.tokensDbName)
              /\ EqualFold(r.coll.collName, r.coll.tokensCollName)
             THEN [err |-> ErrInvalidDbAndCollNames, coll |-> r.coll]
      ELSE r

\* ------------------------------------------------------------------- Init
InitRun ==
  /\ pc = "boot"
  /\ bootIdx = 1
  /\ bootStep = "watched"
  /\ retErr = Nil
  /\ calls = << >>
  /\ cleanupLog = << >>
  /\ exitCode = -1
  /\ groupErr = Nil
  /\ groupCancel = FALSE
  /\ ext = "none"
  /\ wst = [c \in Colls |-> "none"]
  /\ cur = [c \in Colls |-> 0]
  /\ srvTask = "none"
  /\ shTask = "none"
  /\ http = "new"
  /\ firstFail = Nil
  /\ taskFailed = FALSE
  /\ closeLogged = {}
  /\ wfail = [c \in Colls |-> "none"]
  /\ health = NoResponse

InitDurable ==
  /\ stream = [c \in Colls |-> 0]
  /\ sidecar = [c \in Colls |-> << >>]
  /\ bus = [c \in Colls |-> << >>]
  /\ crashes = 0
  /\ dupOK = [c \in Colls |-> {}]
  /\ everPersisted = [c \in Colls |-> {}]
  /\ reopened = "no"

\* What a Connector holds: NothingBuilt before New has constructed anything,
\* AllBuilt when New returns (c, nil).
NothingBuilt ==
  [mongoClient |-> "none", natsClient |-> "none",
   signal |-> FALSE, server |-> FALSE]

AllBuilt ==
  [mongoClient |-> "open", natsClient |-> "open",
   signal |-> TRUE, server |-> TRUE]

Init ==
  /\ InitRun
  /\ InitDurable
  /\ newPc = "done"
  /\ newColls = << >>
  /\ newErr = Nil
  /\ failedOpt = NoOpt
  /\ built = AllBuilt
  /\ cfgs = << >>

\* The state New starts from: no option applied yet.
InitNew ==
  /\ InitRun
  /\ InitDurable
  /\ newPc = "options"
  /\ newColls = << >>
  /\ newErr = Nil
  /\ failedOpt = NoOpt
  /\ built = NothingBuilt
  /\ cfgs = << >>

\* ---------------------------------------------------------- Connector.Run
\* One bootstrap call of the loop body: CreateCollection (watched),
\* CreateCollection (resume tokens) or AddStream; it succeeds or fails.
BootCall ==
  /\ pc = "boot"
  /\ bootIdx \in Colls
  /\ bootStep \in {"watched", "sidecar", "stream"}
  /\ \E fault \in BOOLEAN :
       LET existed == KnownCreated(bootIdx)
           ok == CreateIfAbsent(existed, fault)
           after == AfterBootCall(ok, bootStep)
       IN  /\ calls' = Append(calls, [coll |-> bootIdx, op |-> bootStep,
                                      ok |-> ok, existed |-> existed,
                                      fault |-> fault])
           /\ pc' = after.pc
           /\ bootStep' = after.step
           /\ retErr' = IF after.pc = "cleanup" THEN BootErr(bootStep) ELSE retErr
  /\ UNCHANGED << bootIdx, cleanupLog, closeLogged, exitCode,
                  groupVars, ext, wst, cur,
                  serverVars, durableVars, crashVars,
                  histVars, health, newVars >>

\* group.Go(func() error { ... WatchCollection ... }) for the collection.
SpawnWatcher ==
  /\ pc = "boot"
  /\ bootIdx \in Colls
  /\ bootStep = "spawn"
  /\ wst' = [wst EXCEPT ![bootIdx] = "spawned"]
  /\ bootIdx' = bootIdx + 1
  /\ bootStep' = NextBootStep(bootStep)
  /\ UNCHANGED << pc, retErr, calls, cleanupLog, closeLogged, exitCode,
                  groupVars, ext, cur,
                  serverVars, durableVars, crashVars,
                  histVars, health, newVars >>

\* group.Go(func() error { return c.server.Run() })
SpawnServer ==
  /\ pc = "boot"
  /\ bootIdx \notin Colls
  /\ srvTask' = "spawned"
  /\ pc' = "goShutdown"
  /\ UNCHANGED << bootIdx, bootStep, retErr, calls, cleanupLog, closeLogged, exitCode,
                  groupVars, ext, wst, cur, shTask, http, durableVars, crashVars,
                  histVars, health, newVars >>

\* group.Go(func() error { <-groupCtx.Done(); return c.server.Close() })
SpawnShutdown ==
  /\ pc = "goShutdown"
  /\ shTask' = "waiting"
  /\ pc' = "wait"
  /\ UNCHANGED << bootIdx, bootStep, retErr, calls, cleanupLog, closeLogged, exitCode,
                  groupVars, ext, wst, cur, srvTask, http, durableVars, crashVars,
                  histVars, health, newVars >>

\* return group.Wait(): blocks until every task returned, cancels the group
\* context and returns the first recorded error.
Wait ==
  /\ pc = "wait"
  /\ \A c \in Colls : Returned(c)
  /\ srvTask = "done"
  /\ shTask = "done"
  /\ retErr' = groupErr
  /\ groupCancel' = TRUE
  /\ pc' = "cleanup"
  /\ UNCHANGED << bootIdx, bootStep, calls, cleanupLog, closeLogged, exitCode, groupErr,
                  firstFail, taskFailed, ext, wst, cur, serverVars, durableVars,
                  crashVars, histVars, health, newVars >>

\* defer c.cleanup(): one statement of cleanup at a time (closeClient of the
\* MongoDB client, closeClient of the NATS client, c.stop()); a Close may
\* return an error, which closeClient logs. Run has returned once the last
\* statement is done.
Cleanup ==
  /\ pc = "cleanup"
  /\ Len(cleanupLog) < Len(cleanupOrder)
  /\ LET step == cleanupOrder[Len(cleanupLog) + 1]
     IN  /\ cleanupLog' = Append(cleanupLog, step)
         /\ \E err \in {Nil, ErrClientClose} :
              /\ step = "stop" => err = Nil
              /\ closeLogged' = IF err # Nil THEN closeLogged \cup {step}
                                              ELSE closeLogged
              /\ retErr' = closeClient(retErr, err)
  /\ pc' = IF Len(cleanupLog') = Len(cleanupOrder) THEN "returned" ELSE "cleanup"
  /\ UNCHANGED << bootIdx, bootStep, calls, exitCode, groupVars, ext,
                  wst, cur, serverVars, durableVars, crashVars,
                  histVars, health, newVars >>

\* main: log.Fatalf("exiting: %v", conn.Run())
MainExit ==
  /\ pc = "returned"
  /\ exitCode' = ExitCode(retErr)
  /\ pc' = "exited"
  /\ UNCHANGED << bootIdx, bootStep, retErr, calls, cleanupLog, closeLogged, groupVars, ext,
                  wst, cur, serverVars, durableVars, crashVars,
                  histVars, health, newVars >>

\* The caller cancels the parent context, or SIGINT/SIGTERM arrives.
CancelExt ==
  /\ Alive
  /\ ext = "none"
  /\ \E cause \in {"parent", "signal"} : ext' = cause
  /\ UNCHANGED << runVars, groupVars, wst, cur, serverVars, durableVars,
                  crashVars, histVars, health, newVars >>
\* ------------------------------------------------------------ Watcher task
\* WatchCollection starts: read the most recent token, open the cursor.
WatcherOpen(c) ==
  /\ Alive
  /\ wst[c] = "spawned"
  /\ ~mongoClosed
  /\ cur' = [cur EXCEPT ![c] = ResumePos(c)]
  /\ wst' = [wst EXCEPT ![c] = "idle"]
  /\ UNCHANGED << runVars, groupVars, ext, serverVars, durableVars, crashVars,
                  histVars, health, newVars >>

\* Idle -> Publishing: the cursor delivers the next change event.
Receive(c) ==
  /\ Alive
  /\ NextReady(wst[c])
  /\ ~ctxDone
  /\ ~mongoClosed
  /\ cur[c] < stream[c]
  /\ cur' = [cur EXCEPT ![c] = cur[c] + 1]
  /\ wst' = [wst EXCEPT ![c] = "publishing"]
  /\ UNCHANGED << runVars, groupVars, ext, serverVars, durableVars, crashVars,
                  histVars, health, newVars >>

\* Publishing: the handler publishes the event with its event id as msgId.
\* Success -> Persisting; failure -> Failed, the task returns the error.
Publish(c) ==
  /\ Alive
  /\ wst[c] = "publishing"
  /\ \E acked \in BOOLEAN :
       /\ acked => ~natsClosed
       /\ bus' = IF acked
                   THEN [bus EXCEPT ![c] = Append(@, [event |-> cur[c],
                                                      msgId |-> EventId(cur[c])])]
                   ELSE bus
       /\ LET err == ChangeEventHandler(IF acked THEN Nil ELSE ErrPublish)
          IN  IF err = Nil
                THEN /\ wst' = [wst EXCEPT ![c] = "persisting"]
                     /\ UNCHANGED groupVars
                ELSE /\ wst' = [wst EXCEPT ![c] = "failed"]
                     /\ TaskReturn(err)
       /\ wfail' = IF acked THEN wfail ELSE [wfail EXCEPT ![c] = "publish"]
  /\ UNCHANGED << runVars, ext, cur, serverVars, stream, sidecar, crashVars,
                  everPersisted, reopened, health, newVars >>

\* Persisting: insert the resume-token record of the event just published.
\* Success -> Idle; failure -> Failed, the task returns the error.
Persist(c) ==
  /\ Alive
  /\ wst[c] = "persisting"
  /\ \E written \in BOOLEAN :
       /\ written => ~mongoClosed
       /\ IF written
            THEN /\ sidecar' = [sidecar EXCEPT ![c] =
                                  InsertToken(c, [_id |-> EventId(cur[c]),
                                                  token |-> cur[c]])]
                 /\ wst' = [wst EXCEPT ![c] = "idle"]
                 /\ UNCHANGED groupVars
            ELSE /\ wst' = [wst EXCEPT ![c] = "failed"]
                 /\ TaskReturn(ErrPersist)
                 /\ UNCHANGED sidecar
       /\ wfail' = IF written THEN wfail ELSE [wfail EXCEPT ![c] = "persist"]
  /\ everPersisted' = [everPersisted EXCEPT ![c] =
                         @ \cup { sidecar'[c][i].token : i \in 1..Len(sidecar'[c]) }]
  /\ UNCHANGED << runVars, ext, cur, serverVars, stream, bus, crashVars,
                  reopened, health, newVars >>

\* A non-resumable error of the cursor (or of the read of the latest token),
\* such as a closed client: the task returns the error.
CursorError(c) ==
  /\ Alive
  /\ wst[c] \in {"spawned", "idle"}
  /\ wst' = [wst EXCEPT ![c] = "failed"]
  /\ TaskReturn(ErrCursor)
  /\ wfail' = [wfail EXCEPT ![c] = "cursor"]
  /\ UNCHANGED << runVars, ext, cur, serverVars, durableVars, crashVars,
                  everPersisted, reopened, health, newVars >>

\* A cursor error the driver marks as resumable: the Watcher stays Idle and
\* reopens the cursor with the last persisted token.
CursorReopen(c) ==
  /\ Alive
  /\ wst[c] = "idle"
  /\ ~ctxDone
  /\ ~mongoClosed
  /\ reopened' = IF sidecar[c] = << >> THEN "now" ELSE "token"
  /\ cur' = [cur EXCEPT ![c] = ReopenPos(c)]
  /\ UNCHANGED << runVars, groupVars, ext, wst, serverVars, durableVars,
                  crashVars, wfail, everPersisted, health, newVars >>

\* any -> Stopped: the group context is cancelled; the task returns nil.
Stop(c) ==
  /\ Alive
  /\ Running(c)
  /\ ctxDone
  /\ wst' = [wst EXCEPT ![c] = "stopped"]
  /\ TaskReturn(Nil)
  /\ UNCHANGED << runVars, ext, cur, serverVars, durableVars, crashVars,
                  histVars, health, newVars >>

\* ------------------------------------------------------ Health Server task
\* Server.Run: ListenAndServe starts serving, fails to listen, or returns
\* ErrServerClosed at once when the server is already shut down.
ServerRun ==
  /\ Alive
  /\ srvTask = "spawned"
  /\ \/ /\ http = "shutdown"
        /\ srvTask' = "done"
        /\ TaskReturn(ServeResult)
        /\ UNCHANGED http
     \/ /\ http # "shutdown"
        /\ srvTask' = "listening"
        /\ http' = "serving"
        /\ UNCHANGED groupVars
     \/ /\ http # "shutdown"
        /\ srvTask' = "done"
        /\ TaskReturn(ErrListen)
        /\ UNCHANGED http
  /\ UNCHANGED << runVars, ext, wst, cur, shTask, durableVars, crashVars,
                  histVars, health, newVars >>

\* ListenAndServe returns ErrServerClosed once Shutdown has been called.
ServerReturn ==
  /\ Alive
  /\ srvTask = "listening"
  /\ http = "shutdown"
  /\ srvTask' = "done"
  /\ TaskReturn(ServeResult)
  /\ UNCHANGED << runVars, ext, wst, cur, shTask, http, durableVars, crashVars,
                  histVars, health, newVars >>

\* The shutdown task: <-groupCtx.Done(); return c.server.Close()
ShutdownTask ==
  /\ Alive
  /\ shTask = "waiting"
  /\ ctxDone
  /\ http' = ServerClose(http)
  /\ shTask' = "done"
  /\ \E err \in {Nil, ErrClose} : TaskReturn(err)
  /\ UNCHANGED << runVars, ext, wst, cur, srvTask, durableVars, crashVars,
                  histVars, health, newVars >>

\* GET /healthz while the server serves: every monitor is asked and the
\* response is written. A monitor of a closed client returns an error; a
\* monitor of an open one returns nil or an error (the peer is unreachable).
HealthCheck ==
  /\ Alive
  /\ srvTask = "listening"
  /\ http = "serving"
  /\ \E results \in [Monitors -> {Nil, ErrMonitor}] :
       /\ mongoClosed => results["mongo"] # Nil
       /\ natsClosed => results["nats"] # Nil
       /\ health' = healthCheck(results)
  /\ UNCHANGED << runVars, groupVars, ext, wst, cur, serverVars, durableVars,
                  crashVars, histVars, newVars >>

\* ------------------------------------------------------------- environment
\* A writer changes a document of the watched collection.
TotalEvents == LET Sum[i \in 0..Len(collections)] ==
                     IF i = 0 THEN 0 ELSE Sum[i - 1] + stream[i]
               IN  Sum[Len(collections)]

Insert(c) ==
  /\ TotalEvents < MaxEvents
  /\ stream' = [stream EXCEPT ![c] = stream[c] + 1]
  /\ UNCHANGED << runVars, groupVars, ext, wst, cur, serverVars, sidecar, bus,
                  crashVars, histVars, health, newVars >>

\* Events of c acknowledged by the bus / persisted in the sidecar.
Published(c) == { bus[c][i].event : i \in 1..Len(bus[c]) }
Persisted(c) == { sidecar[c][i].token : i \in 1..Len(sidecar[c]) }

\* Events published whose token is not persisted and that lie after the
\* latest persisted token.
Unpersisted(c) ==
  { e \in Published(c) :
      /\ e \notin Persisted(c)
      /\ sidecar[c] # << >> => e > LatestToken(c) }

\* The process dies (crash, or after its exit) and is started again: the
\* collections, the sidecars and the bus keep their content.
CrashRestart ==
  /\ crashes < MaxCrashes
  /\ crashes' = crashes + 1
  /\ dupOK' = [c \in Colls |-> dupOK[c] \cup Unpersisted(c)]
  /\ pc' = "boot"
  /\ bootIdx' = 1
  /\ bootStep' = "watched"
  /\ retErr' = Nil
  /\ calls' = << >>
  /\ cleanupLog' = << >>
  /\ exitCode' = -1
  /\ groupErr' = Nil
  /\ groupCancel' = FALSE
  /\ ext' = "none"
  /\ wst' = [c \in Colls |-> "none"]
  /\ cur' = [c \in Colls |-> 0]
  /\ srvTask' = "none"
  /\ shTask' = "none"
  /\ http' = "new"
  /\ firstFail' = Nil
  /\ taskFailed' = FALSE
  /\ closeLogged' = {}
  /\ wfail' = [c \in Colls |-> "none"]
  /\ health' = NoResponse
  /\ UNCHANGED << durableVars, everPersisted, reopened, newVars >>

\* ------------------------------------------------------------ connector.New
\* One iteration of "for _, opt := range opts": a WithCollection option is
\* applied; on an error New returns (nil, err).
ApplyOption(dbName, collName, opts) ==
  LET r == WithCollection(dbName, collName, opts)
  IN  IF r.err = Nil
        THEN /\ newColls' = Append(newColls, r.coll)
             /\ UNCHANGED << newPc, newErr, failedOpt >>
        ELSE /\ newPc' = "failed"
             /\ newErr' = r.err
             /\ newColls' = << >>
             /\ failedOpt' = [dbName |-> dbName, collName |-> collName,
                              opts |-> opts]

NewOption ==
  /\ newPc = "options"
  /\ Len(newColls) < MaxCollections
  /\ \E dbName \in Names, collName \in Names, opts \in CollOpts :
       ApplyOption(dbName, collName, opts)
  /\ UNCHANGED << runVars, groupVars, ext, wst, cur, serverVars, durableVars,
                  crashVars, histVars, health, built, cfgs >>

\* ---------------------------------------------------------------- main
\* A collection entry of the config file. The pointer fields
\* TokensCollCapped and TokensCollSizeInBytes are << >> when the file leaves
\* them unset and << v >> when it sets them to v; a name is << >> when the
\* file leaves it empty.
CfgNames == {<< >>, << "a" >>}

CollConfigs ==
  [DbName : CfgNames, CollName : CfgNames,
   TokensDbName : CfgNames, TokensCollName : CfgNames,
   TokensCollCapped : {<< >>, << TRUE >>, << FALSE >>},
   TokensCollSizeInBytes : {<< >>} \cup { << n >> : n \in Sizes }]

\* The collection options main builds from one entry: WithTokensCollCapped
\* is appended only when both pointers are set and the flag is true.
mainCollOpts(coll) ==
  [tokensDbName |-> coll.TokensDbName,
   tokensCollName |-> coll.TokensCollName,
   capped |-> IF /\ coll.TokensCollCapped # << >>
                 /\ coll.TokensCollSizeInBytes # << >>
                 /\ coll.TokensCollCapped[1]
                THEN << coll.TokensCollSizeInBytes[1] >>
                ELSE << >>]

\* One entry of cfg.Connector.Collections: main builds its WithCollection
\* option and New applies it.
MainOption ==
  /\ newPc = "options"
  /\ Len(newColls) < MaxCollections
  /\ \E coll \in CollConfigs :
       /\ ApplyOption(coll.DbName, coll.CollName, mainCollOpts(coll))
       /\ cfgs' = Append(cfgs, coll)
  /\ UNCHANGED << runVars, groupVars, ext, wst, cur, serverVars, durableVars,
                  crashVars, histVars, health, built >>

\* The options Run passes to CreateCollection for the resume-tokens
\* collection of coll.
createResumeTokensCollOpts(coll) ==
  [DbName |-> coll.tokensDbName,
   CollName |-> coll.tokensCollName,
   Capped |-> coll.tokensCollCapped,
   SizeInBytes |-> coll.tokensCollSizeInBytes]

\* mongo.NewClient placed inside the option loop: the client is constructed
\* while options are still to be applied.
NewMongoClientInLoop ==
  /\ newPc = "options"
  /\ built.mongoClient = "none"
  /\ built' = [built EXCEPT !.mongoClient = "open"]
  /\ UNCHANGED << runVars, groupVars, ext, wst, cur, serverVars, durableVars,
                  crashVars, histVars, health, newPc, newColls, newErr,
                  failedOpt, cfgs >>

\* The options are all applied: mongo.NewClient succeeds or fails.
NewMongoClient ==
  /\ newPc = "options"
  /\ \E ok \in BOOLEAN :
       IF ok THEN /\ newPc' = "nats"
                  /\ built' = [built EXCEPT !.mongoClient = "open"]
                  /\ UNCHANGED << newColls, newErr >>
             ELSE /\ newPc' = "failed"
                  /\ newErr' = ErrMongoClient
                  /\ newColls' = << >>
                  /\ UNCHANGED built
  /\ UNCHANGED << runVars, groupVars, ext, wst, cur, serverVars, durableVars,
                  crashVars, histVars, health, failedOpt, cfgs >>

\* nats.NewClient succeeds or fails. On success New registers the signal
\* handler, creates the Health Server and returns (c, nil); on failure it
\* returns (nil, err) as it stands.
NewNatsClient ==
  /\ newPc = "nats"
  /\ \E ok \in BOOLEAN :
       IF ok THEN /\ newPc' = "done"
                  /\ built' = [built EXCEPT !.natsClient = "open",
                                            !.signal = TRUE,
                                            !.server = TRUE]
                  /\ UNCHANGED << newColls, newErr >>
             ELSE /\ newPc' = "failed"
                  /\ newErr' = ErrNatsClient
                  /\ newColls' = << >>
                  /\ UNCHANGED built
  /\ UNCHANGED << runVars, groupVars, ext, wst, cur, serverVars, durableVars,
                  crashVars, histVars, health, failedOpt, cfgs >>

\* ------------------------------------------------------------------- specs
TaskNext ==
  \/ \E c \in Colls : WatcherOpen(c)
  \/ \E c \in Colls : Receive(c)
  \/ \E c \in Colls : Publish(c)
  \/ \E c \in Colls : Persist(c)
  \/ \E c \in Colls : CursorError(c)
  \/ \E c \in Colls : Stop(c)
  \/ ServerRun
  \/ ServerReturn
  \/ ShutdownTask

RunNext ==
  \/ BootCall
  \/ SpawnWatcher
  \/ SpawnServer
  \/ SpawnShutdown
  \/ Wait
  \/ Cleanup

EnvNext ==
  \/ CancelExt
  \/ \E c \in Colls : Insert(c)

\* Resumable cursor errors, recovered inside the Watcher.
ResumeNext == \E c \in Colls : CursorReopen(c)

Next == RunNext \/ TaskNext \/ ResumeNext \/ EnvNext \/ MainExit

Spec == Init /\ [][Next]_vars

\* The connector with clients of the health endpoint.
ServeNext == Next \/ HealthCheck

ServeSpec == Init /\ [][ServeNext]_vars

\* New alone, for every sequence of WithCollection options.
NewNext == NewOption \/ NewMongoClient \/ NewNatsClient

NewSpec == InitNew /\ [][NewNext]_vars

\* New called by main with the options of a config file.
MainNext == MainOption \/ NewMongoClient \/ NewNatsClient

MainSpec == InitNew /\ [][MainNext]_vars

\* The process may die at any point and be restarted. The resumable cursor
\* errors are left out here as well.
CrashNext == RunNext \/ TaskNext \/ EnvNext \/ MainExit \/ CrashRestart

CrashSpec == Init /\ [][CrashNext]_vars

\* Run called from a host that stays alive (as the tests call it), under a
\* scheduler that lets every goroutine that can take a step take it. The
\* resumable cursor errors are left out: recovering from one moves nothing
\* but the position of the cursor and delays no task.
LiveNext == RunNext \/ TaskNext \/ EnvNext

FairSpec == Init /\ [][LiveNext]_vars /\ WF_vars(RunNext) /\ WF_vars(TaskNext)
\* ------------------------------------------------------------------ claims
BootFailed == \E i \in 1..Len(calls) : ~calls[i].ok
RunReturned == pc \in {"returned", "exited"}
Spawned(c) == wst[c] # "none"

\* C1: if any bootstrap step fails for any collection, no Watcher task has
\* been spawned for any collection at any point of that Run call.
C1_NoWatcherWhenBootstrapFails ==
  BootFailed => \A c \in Colls : ~Spawned(c)

\* C2: every resume-token record of a sidecar has the event id of a publish
\* the bus acknowledged before the record was inserted.
C2_PublishThenPersist ==
  \A c \in Colls : \A i \in 1..Len(sidecar[c]) :
    \E j \in 1..Len(bus[c]) : bus[c][j].msgId = sidecar[c][i]._id

C2_Witness ==
  \E c \in Colls : Len(sidecar[c]) > 0 /\ wst[c] = "idle"

\* Number of acknowledged publishes of event e of collection c.
PublishCount(c, e) == Cardinality({ i \in 1..Len(bus[c]) : bus[c][i].event = e })

\* The events the cursor of c has delivered and the Watcher is done with.
HandledUpTo(c) == IF wst[c] = "publishing" THEN cur[c] - 1 ELSE cur[c]
CursorOpen(c) == wst[c] \in {"idle", "publishing", "persisting"}
SetMin(S) == CHOOSE m \in S : \A x \in S : m <= x

\* The only events published more than once are events that were published
\* and not persisted when the process died, and every publish of one event
\* carries the same msgId.
OnlyUnpersistedRepublished ==
  \A c \in Colls :
    /\ \A e \in 1..MaxEvents : PublishCount(c, e) > 1 => e \in dupOK[c]
    /\ \A i, j \in 1..Len(bus[c]) :
         bus[c][i].event = bus[c][j].event => bus[c][i].msgId = bus[c][j].msgId

\* C3 as stated: after a restart no change event is skipped (every event from
\* the first one published up to the cursor has been published), and only the
\* event unpersisted at the crash is published again, with the same msgId.
C3_NoSkipAfterAnyCrash ==
  /\ \A c \in Colls :
       (crashes > 0 /\ CursorOpen(c) /\ Published(c) # {}) =>
         \A e \in SetMin(Published(c))..HandledUpTo(c) : e \in Published(c)
  /\ OnlyUnpersistedRepublished

\* C3 as amended: once a token has been persisted, a restarted Watcher
\* resumes after the latest persisted token: no event after a persisted
\* token is skipped, at most one event is published but unpersisted after
\* it, and only such an event is published again, with the same msgId.
C3_NoSkipAfterPersistedToken ==
  /\ \A c \in Colls :
       sidecar[c] # << >> =>
         /\ Cardinality(Unpersisted(c)) <= 1
         /\ CursorOpen(c) =>
              /\ HandledUpTo(c) >= LatestToken(c)
              /\ \A e \in SetMin(Persisted(c))..HandledUpTo(c) : e \in Published(c)
  /\ OnlyUnpersistedRepublished

\* A restarted Watcher resumed from a persisted token and published the
\* unpersisted event a second time.
C3_Witness ==
  \E c \in Colls :
    /\ crashes > 0
    /\ sidecar[c] # << >>
    /\ \E e \in dupOK[c] : PublishCount(c, e) = 2 /\ e \in Persisted(c)
\* Every spawned task has returned, Run has returned, both clients closed.
AllReturned ==
  /\ pc = "returned"
  /\ mongoClosed /\ natsClosed
  /\ \A c \in Colls : ~Running(c)
  /\ srvTask \in {"none", "done"}
  /\ shTask \in {"none", "done"}

\* C4: once the group context is cancelled, every spawned task eventually
\* returns, Run eventually returns, and both clients are closed by then.
C4_CancelLeadsToReturn == ctxDone ~> AllReturned

\* Cancelled from outside with both Watchers, the Health Server task and the
\* shutdown task spawned, and everything has returned.
C4_Witness ==
  /\ ext # "none"
  /\ AllReturned
  /\ \A c \in Colls : wst[c] = "stopped"
  /\ srvTask = "done" /\ shTask = "done"

\* C5: if a task of the group returns a non-nil error, the group context is
\* cancelled and Run returns the error of the task that failed first.
C5_RunReturnsFirstTaskError ==
  /\ firstFail # Nil => ctxDone
  /\ (RunReturned /\ firstFail # Nil) => retErr = firstFail

\* C6: bootstrap succeeded, the parent context was cancelled and no task
\* failed: Run returns http.ErrServerClosed and both clients are closed.
C6_CleanCancelReturnsServerClosed ==
  (RunReturned /\ ~BootFailed /\ ext = "parent" /\ ~taskFailed) =>
    /\ retErr = ErrServerClosed
    /\ mongoClosed /\ natsClosed

C6_Witness ==
  /\ pc = "returned" /\ ~BootFailed /\ ext = "parent" /\ ~taskFailed
  /\ \A c \in Colls : wst[c] = "stopped"
  /\ retErr = ErrServerClosed

\* C7: on a clean shutdown by cancellation (no task failed) the process
\* exits with code 0; it exits non-zero only when another error occurred.
C7_CleanShutdownExitsZero ==
  pc = "exited" =>
    (exitCode = 0 <=> (~BootFailed /\ ext # "none" /\ ~taskFailed))

\* The bootstrap calls issued for collection c, in order.
CallsOf(c) == SelectSeq(calls, LAMBDA r : r.coll = c)

\* C8: for each collection the bootstrap calls are issued in the order
\* watched collection, sidecar collection, stream, each only after the
\* previous one succeeded, and its Watcher is spawned only after all three
\* succeeded.
C8_BootstrapOrder ==
  \A c \in Colls :
    LET s == CallsOf(c)
        order == << "watched", "sidecar", "stream" >>
    IN  /\ Len(s) <= Len(order)
        /\ \A i \in 1..Len(s) : s[i].op = order[i] /\ (i < Len(s) => s[i].ok)
        /\ Spawned(c) => Len(s) = Len(order) /\ s[Len(s)].ok

C8_Witness ==
  \A c \in Colls : Spawned(c) /\ Len(CallsOf(c)) = 3

\* C9: when a bootstrap call returns error E, Run returns E, no later
\* bootstrap call is issued and the Health Server is never started.
C9_BootstrapErrorAborts ==
  \A i \in 1..Len(calls) :
    ~calls[i].ok =>
      /\ i = Len(calls)
      /\ pc \in {"cleanup", "returned", "exited"}
      /\ retErr = (IF calls[i].op = "stream" THEN ErrAddStream
                                             ELSE ErrCreateCollection)
      /\ srvTask = "none" /\ shTask = "none" /\ http = "new"

\* AddStream failed for the second collection and Run has returned.
C9_Witness ==
  /\ pc = "returned"
  /\ Len(calls) > 0
  /\ calls[Len(calls)].coll = 2
  /\ calls[Len(calls)].op = "stream"
  /\ ~calls[Len(calls)].ok
  /\ retErr = ErrAddStream

IsPrefix(s, t) == Len(s) <= Len(t) /\ \A i \in 1..Len(s) : s[i] = t[i]

\* C10: on every return path cleanup runs exactly once, in the order: close
\* the DocDB client, close the MsgBus client, release the signal handler.
C10_CleanupOrder ==
  LET order == << "mongo", "nats", "stop" >>
  IN  /\ IsPrefix(cleanupLog, order)
      /\ RunReturned => cleanupLog = order
      /\ pc \notin {"cleanup", "returned", "exited"} => cleanupLog = << >>

\* Run returned after a Watcher failed to publish, with cleanup complete.
C10_Witness ==
  /\ pc = "returned"
  /\ retErr = ErrPublish
  /\ cleanupLog = << "mongo", "nats", "stop" >>

\* Events of c acknowledged by the bus whose record was never inserted.
Orphans(c) == Published(c) \ everPersisted[c]
NoPublishOrPersistFailure ==
  \A c \in Colls : wfail[c] \notin {"publish", "persist"}

\* C11 (as stated): when a run has ended without a Publish or a Persist
\* failure, a run ended by cancellation included, every event whose publish
\* was acknowledged has had its sidecar record: no orphan publish.
C11_NoOrphanPublish ==
  (AllReturned /\ NoPublishOrPersistFailure)
    => \A c \in Colls : Orphans(c) = {}

\* C11 (amended): an acknowledged publish that has no record yet is the
\* event the Watcher is at, and it gets its record unless the Watcher fails
\* or is stopped by cancellation between the acknowledgement and the insert.
C11_NoOrphanUnlessInterrupted ==
  /\ [](\A c \in Colls : \A e \in Orphans(c) : e = cur[c])
  /\ \A c \in Colls : \A e \in 1..MaxEvents :
       (e \in Published(c))
         ~> (e \in everPersisted[c] \/ (cur[c] = e /\ Returned(c)))

\* A run ended by cancellation in which a Watcher published events and every
\* one of them has had its record.
C11_Witness ==
  /\ AllReturned /\ NoPublishOrPersistFailure /\ ext # "none" /\ ~BootFailed
  /\ \E c \in Colls :
       /\ wst[c] = "stopped"
       /\ Published(c) # {}
       /\ Orphans(c) = {}

\* Two names are the same ignoring case.
SameIgnoringCase(a, b) == ToUpper(a) = ToUpper(b)
SameNames(coll) ==
  /\ SameIgnoringCase(coll.dbName, coll.tokensDbName)
  /\ SameIgnoringCase(coll.collName, coll.tokensCollName)

\* The names of a WithCollection call, after defaults.
Effective(o) ==
  [dbName |-> o.dbName,
   collName |-> o.collName,
   tokensDbName |-> IF o.opts.tokensDbName = << >>
                      THEN defaultTokensDbName ELSE o.opts.tokensDbName,
   tokensCollName |-> IF o.opts.tokensCollName = << >>
                        THEN o.collName ELSE o.opts.tokensCollName]
OptionFailed == newPc = "failed" /\ newErr \notin {ErrMongoClient, ErrNatsClient}
Accepted(i) == i \in 1..Len(newColls)

\* C12 (as stated): every accepted collection has dbName # tokensDbName or
\* collName # tokensCollName ignoring case, defaults applied, and
\* WithCollection returns ErrInvalidDbAndCollNames exactly when both pairs
\* are equal ignoring case.
C12_NamesErrorExactlyWhenSame ==
  /\ \A i \in 1..Len(newColls) : ~SameNames(newColls[i])
  /\ OptionFailed =>
       (newErr = ErrInvalidDbAndCollNames <=> SameNames(Effective(failedOpt)))

\* C12 (amended): every accepted collection has dbName # tokensDbName or
\* collName # tokensCollName ignoring case, and WithCollection returns
\* ErrInvalidDbAndCollNames exactly when dbName and collName are not empty,
\* no collection option returned an error and both pairs are equal ignoring
\* case.
C12_NamesErrorWhenSameAndValid ==
  /\ \A i \in 1..Len(newColls) : ~SameNames(newColls[i])
  /\ OptionFailed =>
       (newErr = ErrInvalidDbAndCollNames
          <=> /\ failedOpt.dbName # << >>
              /\ failedOpt.collName # << >>
              /\ \A k \in 1..Len(failedOpt.opts.capped) :
                   failedOpt.opts.capped[k] > 0
              /\ SameNames(Effective(failedOpt)))

\* New returned ErrInvalidDbAndCollNames for a watched database named like
\* the default tokens database in another case, with no tokens option.
C12_Witness ==
  /\ newPc = "failed"
  /\ newErr = ErrInvalidDbAndCollNames
  /\ failedOpt.dbName = << "R" >>
  /\ failedOpt.opts.tokensDbName = << >>
  /\ failedOpt.opts.tokensCollName = << >>

\* C13: every accepted collection with tokensCollCapped = true has
\* tokensCollSizeInBytes > 0; WithTokensCollCapped(n) with n <= 0 returns
\* ErrInvalidCollSizeInBytes, and New then returns a nil connector.
C13_CappedSizePositive ==
  /\ \A i \in 1..Len(newColls) :
       newColls[i].tokensCollCapped => newColls[i].tokensCollSizeInBytes > 0
  /\ \A n \in Sizes :
       n <= 0 => WithTokensCollCapped(
                   [tokensCollCapped |-> defaultTokensCollCapped,
                    tokensCollSizeInBytes |-> defaultTokensCollSizeInBytes],
                   n).err = ErrInvalidCollSizeInBytes
  /\ (/\ newPc = "failed"
      /\ failedOpt.dbName # << >>
      /\ failedOpt.collName # << >>
      /\ failedOpt.opts.capped # << >>
      /\ failedOpt.opts.capped[1] <= 0)
       => newErr = ErrInvalidCollSizeInBytes
  /\ newErr = ErrInvalidCollSizeInBytes => (newPc = "failed" /\ newColls = << >>)

\* New returned (nil, ErrInvalidCollSizeInBytes) on WithTokensCollCapped(0).
C13_Witness ==
  /\ newPc = "failed"
  /\ newErr = ErrInvalidCollSizeInBytes
  /\ failedOpt.opts.capped = << 0 >>
  /\ newColls = << >>

\* C14: no two Watchers write to the same sidecar: any two distinct
\* collections New accepted have different (tokensDbName, tokensCollName).
C14_DistinctSidecars ==
  newPc = "done" =>
    \A i, j \in 1..Len(newColls) :
      << newColls[i].dbName, newColls[i].collName >>
          # << newColls[j].dbName, newColls[j].collName >>
        => << newColls[i].tokensDbName, newColls[i].tokensCollName >>
             # << newColls[j].tokensDbName, newColls[j].tokensCollName >>

\* C15: Run spawns one Watcher per entry of options.collections, so there is
\* exactly one Watcher per watched collection only if no two entries New
\* accepted name the same (dbName, collName).
C15_OneWatcherPerCollection ==
  newPc = "done" =>
    \A i, j \in 1..Len(newColls) :
      i # j => << newColls[i].dbName, newColls[i].collName >>
                 # << newColls[j].dbName, newColls[j].collName >>

Served == health.code # 0
MonitorFailed == \E m \in Monitors : health.monitored[m] # Nil

\* C16: the /healthz response has top-level status DOWN if and only if at
\* least one monitor returned an error, each component is DOWN if and only
\* if its own monitor returned an error, and the HTTP status is 200 in both
\* cases.
C16_HealthStatus ==
  Served =>
    /\ health.code = StatusOK
    /\ health.status = (IF MonitorFailed THEN DOWN ELSE UP)
    /\ \A m \in Monitors :
         health.components[m] = (IF health.monitored[m] # Nil THEN DOWN ELSE UP)

\* C17: a monitor that reports an error is not fatal: serving the request
\* cancels nothing, makes no task return and leaves what Run returns as it
\* is; the error shows in the /healthz payload only.
C17_MonitorErrorNotFatal ==
  [][health' # health =>
       /\ UNCHANGED << groupVars, ext, wst, srvTask, shTask, http, pc, retErr,
                       exitCode, cleanupLog >>
       /\ \A m \in Monitors :
            health'.monitored[m] # Nil <=> health'.components[m] = DOWN]_vars

\* A monitor reported an error, and Run still waits with every task running
\* and the group context not cancelled.
C17_Witness ==
  /\ Served /\ MonitorFailed
  /\ pc = "wait" /\ ~ctxDone /\ groupErr = Nil /\ ~taskFailed
  /\ \A c \in Colls : Running(c)
  /\ srvTask = "listening" /\ shTask = "waiting"

\* C18: an error of a client's Close during cleanup never alters what Run
\* returns; it is only logged, the other client is still closed and the
\* signal handler is still released.
C18_CloseErrorOnlyLogged ==
  /\ [][pc = "cleanup" => retErr' = retErr]_vars
  /\ [](RunReturned => (mongoClosed /\ natsClosed /\ stopCalled))
  /\ [](closeLogged \subseteq (Range(cleanupLog) \ {"stop"}))

\* Both clients returned an error from Close after a clean cancellation: Run
\* returned http.ErrServerClosed and cleanup ran to its end.
C18_Witness ==
  /\ pc = "returned"
  /\ closeLogged = {"mongo", "nats"}
  /\ ~BootFailed /\ ~taskFailed
  /\ retErr = ErrServerClosed
  /\ cleanupLog = cleanupOrder

\* C19: a Watcher handles its events strictly in order with at most one
\* event in flight: the publish of an event does not start before the token
\* of the event before it is written, and the publishes and the sidecar
\* inserts both follow the change-stream order.
C19_InOrderOneInFlight ==
  \A c \in Colls :
    /\ \A i \in 1..(Len(bus[c]) - 1) : bus[c][i + 1].event = bus[c][i].event + 1
    /\ \A i \in 1..(Len(sidecar[c]) - 1) :
         sidecar[c][i + 1].token = sidecar[c][i].token + 1
    /\ Cardinality(Orphans(c)) <= 1
    /\ wst[c] = "publishing" =>
         \A e \in Published(c) : e < cur[c] /\ e \in everPersisted[c]
    /\ wst[c] = "persisting" =>
         \A e \in Published(c) : e <= cur[c] /\ (e < cur[c] => e \in everPersisted[c])

\* A Watcher published two events and inserted the token of each.
C19_Witness ==
  \E c \in Colls :
    /\ Len(bus[c]) = 2
    /\ everPersisted[c] = {1, 2}
    /\ wst[c] = "idle"

TasksStopped ==
  /\ \A c \in Colls : ~Running(c)
  /\ srvTask \in {"none", "done"}
  /\ shTask \in {"none", "done"}

\* C20: when the publish of an event fails, no token is written for that
\* event nor for a later one, the Watcher is Failed, its task returns the
\* error and the group is cancelled, so that the sibling Watchers and the
\* Health Server stop.
C20_PublishFailureStopsAll ==
  /\ [](\A c \in Colls :
         wfail[c] = "publish" =>
           /\ wst[c] = "failed"
           /\ \A e \in everPersisted[c] : e < cur[c]
           /\ firstFail # Nil /\ taskFailed
           /\ groupCancel)
  /\ (\E c \in Colls : wfail[c] = "publish") ~> TasksStopped

\* The publish of the Watcher of one collection failed while every task was
\* running; the sibling Watcher and the Health Server have stopped and Run
\* has returned the publish error.
C20_Witness ==
  /\ \E c \in Colls :
       /\ wfail[c] = "publish"
       /\ \A d \in Colls \ {c} : wst[d] = "stopped"
  /\ srvTask = "done" /\ shTask = "done"
  /\ pc = "returned" /\ retErr = ErrPublish

SetMax(S) == CHOOSE m \in S : \A x \in S : x <= m
\* The record of a sidecar with the greatest _id, and the one inserted last.
GreatestId(c) == CHOOSE r \in Range(sidecar[c]) : r._id = SeqMax(Ids(sidecar[c]))
LastInserted(c) == sidecar[c][Len(sidecar[c])]

ReopenStep == reopened' # reopened \/ (cur' # cur /\ wst' = wst)
NonResumableFails ==
  \A c \in Colls : wfail[c] = "cursor" => (wst[c] = "failed" /\ groupCancel)

\* C22 (as stated): a resumable cursor error does not terminate the Watcher
\* nor cancel the group; the cursor is reopened with the last persisted token
\* and no change event is skipped; a non-resumable cursor error makes the
\* Watcher fail.
C22_ReopenNeverSkips ==
  /\ [][ReopenStep =>
         /\ wst' = wst
         /\ UNCHANGED groupVars
         /\ \A c \in Colls : cur'[c] <= cur[c]]_vars
  /\ []NonResumableFails

\* C22 (amended): a resumable cursor error does not terminate the Watcher nor
\* cancel the group; when a token has been persisted the cursor is reopened
\* after the last persisted token and no change event is skipped, and when
\* none has been persisted yet it is reopened at "now"; a non-resumable
\* cursor error makes the Watcher fail.
C22_ReopenAfterPersistedToken ==
  /\ [][ReopenStep =>
         /\ wst' = wst
         /\ UNCHANGED groupVars
         /\ \A c \in Colls :
              IF sidecar[c] # << >>
                THEN /\ cur'[c] = cur[c]
                     /\ wst[c] = "idle" => cur'[c] = LatestToken(c)
                ELSE cur'[c] \in {cur[c], stream[c]}]_vars
  /\ []NonResumableFails

\* A cursor was reopened after a persisted token, and every task is still
\* running with the group context not cancelled.
C22_Witness ==
  /\ reopened = "token"
  /\ pc = "wait" /\ ~ctxDone /\ groupErr = Nil /\ ~taskFailed
  /\ \A c \in Colls : Running(c)
  /\ \E c \in Colls : wst[c] = "idle" /\ sidecar[c] # << >> /\ cur[c] < stream[c]

ServerClosed == http = "shutdown"

ClosedOnlyByShutdownTask ==
  /\ [][(ServerClosed' /\ ~ServerClosed) =>
         (ctxDone /\ shTask = "waiting" /\ shTask' = "done")]_vars
  /\ [](ServerClosed => (ctxDone /\ shTask = "done"))

\* C23 (as stated): the Health Server is closed only by the shutdown task
\* and only after the group context has been cancelled; after cancellation it
\* is eventually closed, and a Health Server task that was spawned returns,
\* also when the cancellation comes before it has started listening.
C23_ClosedAfterAnyCancellation ==
  /\ ClosedOnlyByShutdownTask
  /\ ctxDone ~> (ServerClosed /\ srvTask \in {"none", "done"})

\* C23 (amended): the Health Server is closed only by the shutdown task and
\* only after the group context has been cancelled; once Run has launched
\* the Health Server task, a cancellation leads to the server being closed
\* and its task returning, also when the cancellation comes before the task
\* has started listening.
C23_ServerClosedByShutdownTask ==
  /\ ClosedOnlyByShutdownTask
  /\ (ctxDone /\ srvTask # "none") ~> (ServerClosed /\ srvTask = "done")

\* The shutdown task closed the Health Server before the Health Server task
\* had started listening.
C23_Witness ==
  /\ ServerClosed
  /\ shTask = "done"
  /\ srvTask = "spawned"

OptionErrors ==
  {ErrDbNameMissing, ErrCollNameMissing, ErrInvalidCollSizeInBytes,
   ErrInvalidDbAndCollNames}

C25_ValidationFailsFast ==
  OptionFailed =>
    /\ newErr \in OptionErrors
    /\ newErr = WithCollection(failedOpt.dbName, failedOpt.collName,
                               failedOpt.opts).err
    /\ newColls = << >>
    /\ built = NothingBuilt

\* An option with a dbName and no collName failed: New returned its error
\* with nothing constructed.
C25_Witness ==
  /\ OptionFailed
  /\ newErr = ErrCollNameMissing
  /\ failedOpt.dbName # << >>
  /\ built = NothingBuilt

\* C28: when New returns an error no client connection is left open.
C28_NoClientLeftOpen ==
  newPc = "failed" =>
    (built.mongoClient # "open" /\ built.natsClient # "open")

\* C26: a collection whose config entry sets tokensCollCapped = true is
\* never bootstrapped with an uncapped sidecar: whether the entry sets
\* tokensCollSizeInBytes or not, either startup fails or the sidecar
\* CreateCollection of that collection is requested with Capped = true and
\* SizeInBytes > 0.
C26_CappedConfigNeverUncapped ==
  newPc = "done" =>
    \A i \in 1..Len(newColls) :
      cfgs[i].TokensCollCapped = << TRUE >> =>
        /\ createResumeTokensCollOpts(newColls[i]).Capped
        /\ createResumeTokensCollOpts(newColls[i]).SizeInBytes > 0

\* C27: neither client is closed while a task spawned by Run (a Watcher,
\* the server task, the shutdown task) is still running, on every return
\* path of Run, the bootstrap failure of a later collection included.
C27_NoCloseUnderRunningTask ==
  (mongoClosed \/ natsClosed) =>
    /\ \A c \in Colls : ~Running(c)
    /\ srvTask \in {"none", "done"}
    /\ shTask \in {"none", "done"}
====
